---- MODULE Spec2Model ----
(***************************************************************************)
(* Model of the Mandelbrot viewer in src/src/main.rs.                      *)
(*                                                                         *)
(* MReal is FixedI128<U117>: a two's-complement integer of                 *)
(* INT_BITS + FRAC_BITS bits read as raw / 2^FRAC_BITS.  The program has   *)
(* 117 fractional bits; the model keeps the 11 integer bits (the range     *)
(* [-1024, 1024) of the comment at main.rs:18) and scales the fractional   *)
(* bits down to FRAC_BITS so that raw values fit the checker's integers.   *)
(* WIDTH and HEIGHT are scaled down from 640 x 360 and ITERATIONS from 300  *)
(* in the same way.                                                        *)
(***************************************************************************)
EXTENDS Integers, Sequences, FiniteSets

\* ------------------------------------------------------------ bounds
FRAC_BITS == 12
WIDTH == 4
HEIGHT == 3
MaxWrites == 3
MaxCoord == 6
MaxBudget == 4
MaxSwitches == 0
MaxPresses == 245
ITERATIONS == 6

\* ------------------------------------------------- program constants
INT_BITS == 11

VARIABLES
  overflow_checks,  \* the build: TRUE panics on MReal overflow, FALSE wraps
  writer_priority,  \* RwLock policy: a waiting writer blocks new readers
  settings,         \* the MandleParams inside the RwLock
  readers,          \* read guards alive (all belong to the worker)
  pcW,              \* worker position in update() / render_mandlebrot()
  args,             \* the argument values update() has evaluated so far
  grid,             \* Grid<f64>.contents
  frame,            \* pixels.frame_mut()
  present_err,      \* pixels.render() has returned Err
  pcI,              \* input thread position in the event handler
  keys,             \* keys of the event being handled
  hist,             \* every Viewport value stored in the RwLock, in order
  frameStart,       \* Len(hist) when the worker began its current snapshot
  readAt,           \* Len(hist) at the read of each of the four fields
  in_a, in_b, in_n, \* inputs of one calc_mandle_divergence call
  result,           \* its return value
  result_2n,        \* the return value of the call with budget 2 * in_n
  rx, ry,           \* loop indices of render_mandlebrot
  writes,           \* how often each frame offset has been written
  lastKey, switches,\* the key pressed last and the number of key changes
  presses,          \* the number of zoom key presses handled
  wrapped           \* an MReal operation wrapped and its result was kept

vars == <<overflow_checks, writer_priority, settings, readers, pcW, args, grid,
          frame, present_err, pcI, keys, hist, frameStart, readAt, in_a, in_b,
          in_n, result, result_2n, rx, ry, writes, lastKey, switches, presses, wrapped>>

\* ------------------------------------------------------------- MReal
ONE == 2 ^ FRAC_BITS
INT_SPAN == 2 ^ INT_BITS
MODULUS == ONE * INT_SPAN
MR_MAX == (MODULUS \div 2) - 1
MR_MIN == -(MODULUS \div 2)

in_range(v) == MR_MIN <= v /\ v <= MR_MAX

\* two's-complement wrap of an exact raw value
wrap(v) ==
  LET m == v % MODULUS
  IN IF m > MR_MAX THEN m - MODULUS ELSE m

\* MReal::from_num of the decimal n/d: round to nearest
from_num(n, d) == (2 * n * ONE + d) \div (2 * d)

\* MReal::from_num of an integer (usize)
from_int(k) == k * ONE

add_exact(a, b) == a + b
add_ovf(a, b) == ~in_range(add_exact(a, b))
mr_add(a, b) == wrap(add_exact(a, b))

sub_exact(a, b) == a - b
sub_ovf(a, b) == ~in_range(sub_exact(a, b))
mr_sub(a, b) == wrap(sub_exact(a, b))

abs_ovf(a) == a = MR_MIN
mr_abs(a) == IF a < 0 THEN wrap(-a) ELSE a

\* a * b = (ah*ONE + al) * (bh*ONE + bl).  wide_mul is the exact product
\* shifted right by FRAC_BITS (rounding down), as <<q, r>> for q * ONE + r
\* with 0 <= r < ONE.
wide_mul(a, b) ==
  LET ah == a \div ONE
      al == a % ONE
      bh == b \div ONE
      bl == b % ONE
      rest == ah * bl + al * bh + ((al * bl) \div ONE)
  IN <<ah * bh + (rest \div ONE), rest % ONE>>
wide_ovf(w) == w[1] < -(INT_SPAN \div 2) \/ w[1] >= INT_SPAN \div 2
wide_wrap(w) == wrap((w[1] % INT_SPAN) * ONE + w[2])

mul_ovf(a, b) == wide_ovf(wide_mul(a, b))
mr_mul(a, b) == wide_wrap(wide_mul(a, b))

TWO == from_num(2, 1)
FOUR == from_num(4, 1)

\* ----------------------------------------------------------- f64 results
RECURSIVE gcd(_, _)
gcd(m, n) == IF n = 0 THEN m ELSE gcd(n, m % n)

\* the f64 quotient i / max_iter as a reduced fraction <<p, q>>
f64_div(i, max_iter) ==
  LET g == gcd(i, max_iter)
  IN <<i \div g, max_iter \div g>>
F64_ZERO == <<0, 1>>

\* ---------------------------------------------- calc_mandle_divergence
\* The for loop from iteration i on.  Returns esc (the iteration of the
\* return inside the loop, max_iter when the loop runs out), ovf (an
\* operation overflowed and wrapped) and panic (an operation overflowed
\* in a build with overflow checks).
RECURSIVE mandle_loop(_, _, _, _, _, _, _, _)
mandle_loop(a, b, z0_a, z0_b, i, max_iter, checks, ovf) ==
  IF i >= max_iter
  THEN [esc |-> max_iter, ovf |-> ovf, panic |-> FALSE]
  ELSE
    LET abs_a == mr_abs(a)
        abs_b == mr_abs(b)
        o1 == abs_ovf(a) \/ abs_ovf(b) \/ add_ovf(abs_a, abs_b)
        w_aa == wide_mul(a, a)
        w_bb == wide_mul(b, b)
        w_2a == wide_mul(TWO, a)
        a_new == mr_sub(wide_wrap(w_aa), wide_wrap(w_bb))
        w_2ab == wide_mul(wide_wrap(w_2a), b)
        b_new == wide_wrap(w_2ab)
        o2 == \/ wide_ovf(w_aa) \/ wide_ovf(w_bb)
              \/ sub_ovf(wide_wrap(w_aa), wide_wrap(w_bb))
              \/ wide_ovf(w_2a) \/ wide_ovf(w_2ab)
              \/ add_ovf(a_new, z0_a) \/ add_ovf(b_new, z0_b)
    IN IF checks /\ o1
       THEN [esc |-> i, ovf |-> TRUE, panic |-> TRUE]
       ELSE IF mr_add(abs_a, abs_b) > FOUR
       THEN [esc |-> i, ovf |-> ovf \/ o1, panic |-> FALSE]
       ELSE IF checks /\ o2
       THEN [esc |-> i, ovf |-> TRUE, panic |-> TRUE]
       ELSE LET a1 == mr_add(a_new, z0_a)
                b1 == mr_add(b_new, z0_b)
                ovf1 == ovf \/ o1 \/ o2
            IN mandle_loop(a1, b1, z0_a, z0_b, i + 1, max_iter, checks, ovf1)

\* variant: divides by max_iter + 1
calc_mandle_divergence_off_by_one(a, b, max_iter, checks) ==
  LET r == mandle_loop(a, b, a, b, 0, max_iter, checks, FALSE)
  IN [esc |-> r.esc, ovf |-> r.ovf, panic |-> r.panic,
      val |-> IF r.panic THEN "panic"
              ELSE IF r.esc < max_iter THEN f64_div(r.esc, max_iter + 1)
              ELSE F64_ZERO]

\* The call: val is the f64 returned ("panic" when the thread panics), esc
\* the iteration of the return inside the loop (max_iter: the loop ran out).
calc_mandle_divergence(a, b, max_iter, checks) ==
  LET r == mandle_loop(a, b, a, b, 0, max_iter, checks, FALSE)
  IN [esc |-> r.esc, ovf |-> r.ovf, panic |-> r.panic,
      val |-> IF r.panic THEN "panic"
              ELSE IF r.esc < max_iter THEN f64_div(r.esc, max_iter)
              ELSE F64_ZERO]

\* ------------------------------------------------------------------ Grid
\* Grid::new(rows, cols, default)
grid_new(r, c, default) ==
  [rows |-> r, cols |-> c, contents |-> [k \in 0..(r * c - 1) |-> default]]

\* the bounds test shared by Grid::get and Grid::get_val
grid_oob(g, x, y) == x >= g.rows \/ y >= g.cols

grid_index(g, x, y) == y * g.rows + x

\* *grid.get(x, y) = v
grid_set(g, x, y, v) ==
  [g EXCEPT !.contents = [@ EXCEPT ![grid_index(g, x, y)] = v]]

grid_get_val(g, x, y) == g.contents[grid_index(g, x, y)]

\* ---------------------------------------------------- calc_mandlebrot_set
HALF_WIDTH == from_num(WIDTH, 2)
HALF_HEIGHT == from_num(HEIGHT, 2)

\* c + (MReal::from_num(idx) - half) * zoom_level
pixel_coord(c, idx, half, zoom_level) ==
  mr_add(c, mr_mul(mr_sub(from_int(idx), half), zoom_level))

pixel_coord_ovf(c, idx, half, zoom_level) ==
  LET d == mr_sub(from_int(idx), half)
  IN \/ ~in_range(from_int(idx))
     \/ sub_ovf(from_int(idx), half)
     \/ mul_ovf(d, zoom_level)
     \/ add_ovf(c, mr_mul(d, zoom_level))

\* The nested loops from pixel number k = x * HEIGHT + y on (x is the outer
\* loop).  st carries the grid, whether an operation has wrapped, and whether
\* the thread has panicked (overflow check or Grid bounds).
RECURSIVE calc_from(_, _, _, _, _, _, _)
calc_from(st, k, a, b, zoom_level, max_iter, checks) ==
  IF k >= WIDTH * HEIGHT \/ st.panic THEN st
  ELSE
    LET x == k \div HEIGHT
        y == k % HEIGHT
        covf == \/ pixel_coord_ovf(a, x, HALF_WIDTH, zoom_level)
                \/ pixel_coord_ovf(b, y, HALF_HEIGHT, zoom_level)
        r == calc_mandle_divergence(
               pixel_coord(a, x, HALF_WIDTH, zoom_level),
               pixel_coord(b, y, HALF_HEIGHT, zoom_level), max_iter, checks)
    IN IF (checks /\ covf) \/ r.panic \/ grid_oob(st.grid, x, y)
       THEN [st EXCEPT !.panic = TRUE]
       ELSE LET st1 == [grid |-> grid_set(st.grid, x, y, r.val),
                        ovf |-> st.ovf \/ covf \/ r.ovf,
                        panic |-> FALSE]
            IN calc_from(st1, k + 1, a, b, zoom_level, max_iter, checks)

calc_mandlebrot_set(g, a, b, zoom_level, max_iter, checks) ==
  calc_from([grid |-> g, ovf |-> FALSE, panic |-> FALSE], 0,
            a, b, zoom_level, max_iter, checks)

\* ------------------------------------------------------------- map_color
\* (x * 4294967296.0) as u32, bytes 0, 1 and 2.  x = p/q; the quotient
\* p * 2^32 / q is developed in base 256 (d1 d2 d3 d4), the cast saturates.
map_color(x) ==
  LET p == x[1]
      q == x[2]
      d1 == (p * 256) \div q
      r1 == (p * 256) % q
      d2 == (r1 * 256) \div q
      r2 == (r1 * 256) % q
      d3 == (r2 * 256) \div q
      r3 == (r2 * 256) % q
      d4 == (r3 * 256) \div q
  IN IF p >= q THEN <<255, 255, 255>> ELSE <<d4, d3, d2>>

\* ------------------------------------------------------ render_mandlebrot
FRAME_LEN == WIDTH * HEIGHT * 4

\* variant: the row stride is HEIGHT
frame_offset_wrong_stride(x, y) == (x + (y * HEIGHT)) * 4

frame_offset(x, y) == (x + (y * WIDTH)) * 4

\* the loop body: the four stores of one pixel
render_pixel(fr, g, x, y) ==
  LET col == map_color(grid_get_val(g, x, y))
      o == frame_offset(x, y)
  IN [fr EXCEPT ![o] = col[1], ![o + 1] = col[2], ![o + 2] = col[3],
                ![o + 3] = 255]

\* the loop body panics: Grid bounds or slice index out of range
render_pixel_panics(fr, g, x, y) ==
  grid_oob(g, x, y) \/ frame_offset(x, y) + 3 >= FRAME_LEN

RECURSIVE render_from(_, _, _)
render_from(fr, g, k) ==
  IF k >= WIDTH * HEIGHT THEN fr
  ELSE LET fr1 == render_pixel(fr, g, k \div HEIGHT, k % HEIGHT)
       IN render_from(fr1, g, k + 1)

render_mandlebrot(g, fr) == render_from(fr, g, 0)

\* ------------------------------------------------- state after construction
\* main.rs:190-195
InitSettings ==
  [x |-> from_num(-2071, 10000), y |-> from_num(11228, 10000),
   zoom |-> from_num(1, 100), iterations |-> ITERATIONS]

ArgsOf(s) ==
  [a |-> s.x, b |-> s.y, zoom_level |-> s.zoom, max_iter |-> s.iterations]

\* Grid::new(WIDTH, HEIGHT, 0.0) filled by the calc_mandlebrot_set of main
FirstGrid(s, checks) ==
  calc_mandlebrot_set(grid_new(WIDTH, HEIGHT, F64_ZERO), s.x, s.y, s.zoom,
                      s.iterations, checks).grid

BlankFrame == [o \in 0..(FRAME_LEN - 1) |-> 0]

Fields == {"x", "y", "zoom", "iterations"}

\* values of the variables a specification does not use
LockIdle == writer_priority = FALSE /\ readers = 0
InputIdle == pcI = "wait" /\ keys = {}
GhostIdle ==
  hist = <<InitSettings>> /\ frameStart = 1 /\ readAt = [f \in Fields |-> 1]
\* no call made yet
NoCall == [esc |-> -1, ovf |-> FALSE, panic |-> FALSE, val |-> "none"]
Called(r) == r.esc >= 0
DivIdle ==
  in_a = 0 /\ in_b = 0 /\ in_n = 1 /\ result = NoCall /\ result_2n = NoCall
RenderIdle == rx = 0 /\ ry = 0 /\ writes = [o \in 0..(FRAME_LEN - 1) |-> 0]
NumIdle ==
  lastKey = "none" /\ switches = 0 /\ presses = 0 /\ wrapped = FALSE
WorkerIdle ==
  /\ pcW = "idle"
  /\ args = ArgsOf(InitSettings)
  /\ grid = grid_new(WIDTH, HEIGHT, F64_ZERO)
  /\ frame = BlankFrame
  /\ present_err = FALSE

lockVars == <<writer_priority, readers>>
inputVars == <<pcI, keys>>
ghostVars == <<hist, frameStart, readAt>>
divVars == <<in_a, in_b, in_n, result, result_2n>>
renderVars == <<rx, ry, writes>>
numVars == <<lastKey, switches, presses, wrapped>>
workerVars == <<pcW, args, grid, frame, present_err>>

\* ===================================================================
\* Spec: the worker thread (update) and the input thread (event handler)
\* ===================================================================
Init ==
  /\ overflow_checks \in BOOLEAN
  /\ writer_priority \in BOOLEAN
  /\ settings = InitSettings
  /\ readers = 0
  /\ pcW = "read_x"
  /\ args = ArgsOf(InitSettings)
  /\ grid = FirstGrid(InitSettings, overflow_checks)
  /\ frame = render_mandlebrot(grid, BlankFrame)
  /\ present_err = FALSE
  /\ InputIdle /\ GhostIdle /\ DivIdle /\ RenderIdle /\ NumIdle

\* the process runs: the event loop has neither exited nor panicked
Alive == pcI \notin {"exit", "panicked"}

\* ---- RwLock<MandleParams>
\* settings.write() has been called and has not returned
WriterWaiting == pcI \in {"write_in", "write_out"}

\* RwLock::read() returns; a write guard is never alive between two steps
read_admitted == ~(writer_priority /\ WriterWaiting)

\* RwLock::write() returns
write_admitted == readers = 0

\* variant: the guard is dropped as soon as the field has been copied
guards_dropped_at_once(n) == n

\* The guard of settings.read().unwrap().f is a temporary of the call
\* statement: it is dropped when calc_mandlebrot_set has returned.
guards_after_read(n) == n + 1

\* variant: the zoom read before the loop is used again
read_zoom_cached == args.zoom_level

\* settings.read().unwrap().zoom
read_zoom == settings.zoom

\* ---- update()
ReadX ==
  /\ Alive /\ pcW = "read_x" /\ read_admitted
  /\ readers' = guards_after_read(readers)
  /\ args' = [args EXCEPT !.a = settings.x]
  /\ frameStart' = Len(hist)
  /\ readAt' = [readAt EXCEPT !["x"] = Len(hist)]
  /\ pcW' = "read_y"
  /\ UNCHANGED <<overflow_checks, writer_priority, settings, grid, frame,
                 present_err, inputVars, hist, divVars, renderVars, numVars>>

ReadY ==
  /\ Alive /\ pcW = "read_y" /\ read_admitted
  /\ readers' = guards_after_read(readers)
  /\ args' = [args EXCEPT !.b = settings.y]
  /\ readAt' = [readAt EXCEPT !["y"] = Len(hist)]
  /\ pcW' = "read_zoom"
  /\ UNCHANGED <<overflow_checks, writer_priority, settings, grid, frame,
                 present_err, inputVars, hist, frameStart, divVars,
                 renderVars, numVars>>

ReadZoom ==
  /\ Alive /\ pcW = "read_zoom" /\ read_admitted
  /\ readers' = guards_after_read(readers)
  /\ args' = [args EXCEPT !.zoom_level = read_zoom]
  /\ readAt' = [readAt EXCEPT !["zoom"] = Len(hist)]
  /\ pcW' = "read_iter"
  /\ UNCHANGED <<overflow_checks, writer_priority, settings, grid, frame,
                 present_err, inputVars, hist, frameStart, divVars,
                 renderVars, numVars>>

ReadIter ==
  /\ Alive /\ pcW = "read_iter" /\ read_admitted
  /\ readers' = guards_after_read(readers)
  /\ args' = [args EXCEPT !.max_iter = settings.iterations]
  /\ readAt' = [readAt EXCEPT !["iterations"] = Len(hist)]
  /\ pcW' = "calc"
  /\ UNCHANGED <<overflow_checks, writer_priority, settings, grid, frame,
                 present_err, inputVars, hist, frameStart, divVars,
                 renderVars, numVars>>

\* calc_mandlebrot_set runs and returns (or panics); the four guards drop
Calc ==
  /\ Alive /\ pcW = "calc"
  /\ \E r \in {calc_mandlebrot_set(grid, args.a, args.b, args.zoom_level,
                                  args.max_iter, overflow_checks)} :
       /\ grid' = r.grid
       /\ pcW' = IF r.panic THEN "panicked" ELSE "render"
       /\ wrapped' = (wrapped \/ (r.ovf /\ ~r.panic))
  /\ readers' = 0
  /\ UNCHANGED <<overflow_checks, writer_priority, settings, args, frame,
                 present_err, inputVars, ghostVars, divVars, renderVars,
                 lastKey, switches, presses>>

Render ==
  /\ Alive /\ pcW = "render"
  /\ frame' = render_mandlebrot(grid, frame)
  /\ pcW' = "present"
  /\ UNCHANGED <<overflow_checks, settings, lockVars, args, grid, present_err,
                 inputVars, ghostVars, divVars, renderVars, numVars>>

\* pixels.render(): Ok continues the loop, Err prints and breaks
Present ==
  /\ Alive /\ pcW = "present"
  /\ \E ok \in BOOLEAN :
       /\ present_err' = ~ok
       /\ pcW' = IF ok THEN "read_x" ELSE "returned"
  /\ UNCHANGED <<overflow_checks, settings, lockVars, args, grid, frame,
                 inputVars, ghostVars, divVars, renderVars, numVars>>

\* ---- the event handler
Keys == {"Space", "RAlt", "Escape"}
ZOOM_IN == from_num(95, 100)
ZOOM_OUT == from_num(105, 100)

\* input.update(&event) is true: Escape or quit exits, else Space and RAlt
\* are handled in this order
handle_event(ks) ==
  /\ pcI = "wait"
  /\ keys' = ks
  /\ pcI' = IF "Escape" \in ks THEN "exit"
            ELSE IF "Space" \in ks THEN "write_in"
            ELSE IF "RAlt" \in ks THEN "write_out"
            ELSE "wait"

\* settings.write().unwrap().zoom *= factor
zoom_assign(pc, factor, next) ==
  /\ pcI = pc /\ write_admitted
  /\ IF overflow_checks /\ mul_ovf(settings.zoom, factor)
     THEN pcI' = "panicked" /\ settings' = settings
     ELSE /\ pcI' = next
          /\ settings' = [settings EXCEPT !.zoom = mr_mul(@, factor)]
  /\ wrapped' = (wrapped \/ (~overflow_checks /\ mul_ovf(settings.zoom, factor)))
  /\ keys' = keys

AfterSpace == IF "RAlt" \in keys THEN "write_out" ELSE "wait"

ZoomKeys(ks) == Cardinality(ks \cap {"Space", "RAlt"})

Event ==
  \E ks \in SUBSET Keys :
    /\ Len(hist) + ZoomKeys(ks) <= MaxWrites + 1
    /\ handle_event(ks)
    /\ UNCHANGED <<overflow_checks, settings, lockVars, workerVars, ghostVars,
                   divVars, renderVars, numVars>>

WriteIn ==
  /\ zoom_assign("write_in", ZOOM_IN, AfterSpace)
  /\ hist' = IF pcI' = "panicked" THEN hist ELSE Append(hist, settings')
  /\ UNCHANGED <<overflow_checks, lockVars, workerVars, frameStart, readAt,
                 divVars, renderVars, lastKey, switches, presses>>

WriteOut ==
  /\ zoom_assign("write_out", ZOOM_OUT, "wait")
  /\ hist' = IF pcI' = "panicked" THEN hist ELSE Append(hist, settings')
  /\ UNCHANGED <<overflow_checks, lockVars, workerVars, frameStart, readAt,
                 divVars, renderVars, lastKey, switches, presses>>

Next ==
  \/ ReadX \/ ReadY \/ ReadZoom \/ ReadIter \/ Calc \/ Render \/ Present
  \/ Event \/ WriteIn \/ WriteOut

Spec == Init /\ [][Next]_vars

\* ---- claims of Spec
ReadPcs == {"read_x", "read_y", "read_zoom", "read_iter"}

\* the worker waits in read() behind a writer that waits for the worker's
\* own guards: neither call can ever return
Deadlocked ==
  /\ Alive
  /\ pcW \in ReadPcs /\ ~read_admitted
  /\ WriterWaiting /\ ~write_admitted

\* C1: the four values one loop iteration passes to calc_mandlebrot_set are
\* the fields of one Viewport value that was stored in the RwLock at a single
\* instant: no write takes effect between the reads of the four fields.
C1_SnapshotIsOneStoredViewport ==
  pcW = "calc" =>
    /\ \A f \in Fields : readAt[f] = readAt["x"]
    /\ args = ArgsOf(hist[readAt["x"]])

\* C1 witness: the worker has read all four fields after a zoom write.
C1_Witness == pcW = "calc" /\ readAt["x"] > 1 /\ readers = 4

\* C2: every snapshot the worker begins reading after a zoom write has
\* completed uses the zoom of that write or of a later one.
C2_CompletedWriteIsVisible ==
  pcW \in {"read_iter", "calc"} =>
    \E k \in frameStart..Len(hist) : args.zoom_level = hist[k].zoom

\* C2 witness: a snapshot begun after a completed write has read its zoom.
C2_Witness ==
  /\ pcW \in {"read_iter", "calc"}
  /\ frameStart > 1
  /\ args.zoom_level # InitSettings.zoom

\* C6: the update loop stops only when presentation fails.
C6_StopsOnlyOnPresentErr ==
  (pcW \in {"returned", "panicked"} \/ Deadlocked) => present_err

\* C10: the worker and the input thread never deadlock on the RwLock.
C10_NoDeadlock == ~Deadlocked

\* ===================================================================
\* SpecNum: the zoom keys pressed one after another, a frame drawn after
\* each press
\* ===================================================================
NumEvent ==
  \E k \in {"Space", "RAlt"} :
    /\ pcW = "present" /\ args = ArgsOf(settings)
    /\ presses < MaxPresses
    /\ (lastKey \in {"none", k} \/ switches < MaxSwitches)
    /\ handle_event({k})
    /\ lastKey' = k
    /\ switches' = IF lastKey \in {"none", k} THEN switches ELSE switches + 1
    /\ presses' = presses + 1
    /\ UNCHANGED <<overflow_checks, settings, lockVars, workerVars, ghostVars,
                   divVars, renderVars, wrapped>>

NumWriteIn ==
  /\ zoom_assign("write_in", ZOOM_IN, AfterSpace)
  /\ UNCHANGED <<overflow_checks, lockVars, workerVars, ghostVars, divVars,
                 renderVars, lastKey, switches, presses>>

NumWriteOut ==
  /\ zoom_assign("write_out", ZOOM_OUT, "wait")
  /\ UNCHANGED <<overflow_checks, lockVars, workerVars, ghostVars, divVars,
                 renderVars, lastKey, switches, presses>>

NumWorker ==
  /\ pcI = "wait"
  /\ (ReadX \/ ReadY \/ ReadZoom \/ ReadIter \/ Calc \/ Render)

NumNext == NumEvent \/ NumWriteIn \/ NumWriteOut \/ NumWorker \/ Present

SpecNum == Init /\ [][NumNext]_vars

\* C4: in every reachable state the stored zoom is strictly greater than 0
\* and iterations is at least 1.
C4_ZoomPositive == settings.zoom > 0 /\ settings.iterations >= 1

\* C5: no MReal operation silently wraps: a wrapped value is never stored in
\* the Viewport or used to compute a pixel.
C5_NoSilentWrap == ~wrapped

\* ===================================================================
\* SpecRender: one invocation of render_mandlebrot, store by store
\* ===================================================================
\* the zoom stored after n ZoomOut presses
RECURSIVE zoomed_out(_, _)
zoomed_out(z, n) ==
  IF n = 0 THEN z
  ELSE mr_mul(zoomed_out(z, n - 1), ZOOM_OUT)

ZOOM_40 == zoomed_out(InitSettings.zoom, 40)
ZOOM_80 == zoomed_out(ZOOM_40, 40)
ZOOM_95 == zoomed_out(ZOOM_80, 15)
ZOOM_110 == zoomed_out(ZOOM_95, 15)

RenderZooms == {InitSettings.zoom, ZOOM_40, ZOOM_80, ZOOM_95, ZOOM_110}

RenderInit ==
  /\ overflow_checks \in BOOLEAN
  /\ \E z \in RenderZooms : settings = [InitSettings EXCEPT !.zoom = z]
  /\ pcW = "render"
  /\ args = ArgsOf(settings)
  /\ grid = FirstGrid(settings, overflow_checks)
  /\ frame = BlankFrame
  /\ present_err = FALSE
  /\ LockIdle /\ InputIdle /\ GhostIdle /\ DivIdle /\ RenderIdle /\ NumIdle

PixelOffsets(x, y) == frame_offset(x, y)..(frame_offset(x, y) + 3)

\* one pass of the inner loop body
RenderStep ==
  /\ pcW = "render" /\ rx < WIDTH
  /\ IF render_pixel_panics(frame, grid, rx, ry)
     THEN /\ pcW' = "panicked"
          /\ UNCHANGED <<frame, writes, rx, ry>>
     ELSE /\ frame' = render_pixel(frame, grid, rx, ry)
          /\ writes' = [o \in DOMAIN writes |->
                          IF o \in PixelOffsets(rx, ry)
                          THEN writes[o] + 1 ELSE writes[o]]
          /\ ry' = IF ry + 1 < HEIGHT THEN ry + 1 ELSE 0
          /\ rx' = IF ry + 1 < HEIGHT THEN rx ELSE rx + 1
          /\ pcW' = pcW
  /\ UNCHANGED <<overflow_checks, settings, lockVars, args, grid, present_err,
                 inputVars, ghostVars, divVars, numVars>>

RenderReturn ==
  /\ pcW = "render" /\ rx = WIDTH
  /\ pcW' = "present"
  /\ UNCHANGED <<overflow_checks, settings, lockVars, args, grid, frame,
                 present_err, inputVars, ghostVars, divVars, renderVars,
                 numVars>>

RenderNext == RenderStep \/ RenderReturn

SpecRender == RenderInit /\ [][RenderNext]_vars

\* C7: one invocation writes the four bytes of every pixel (x, y) exactly
\* once, at offsets (x + y*WIDTH)*4 .. +3, the fourth byte 0xFF; no offset is
\* written twice, none is skipped, none lies outside the frame.
C7_EveryPixelOnce ==
  /\ pcW # "panicked"
  /\ \A o \in DOMAIN writes : writes[o] <= 1
  /\ pcW = "present" =>
       /\ \A o \in 0..(WIDTH * HEIGHT * 4 - 1) : writes[o] = 1
       /\ \A x \in 0..(WIDTH - 1), y \in 0..(HEIGHT - 1) :
            LET col == map_color(grid_get_val(grid, x, y))
                o == (x + y * WIDTH) * 4
            IN /\ frame[o] = col[1] /\ frame[o + 1] = col[2]
               /\ frame[o + 2] = col[3] /\ frame[o + 3] = 255

\* C7 witness: the invocation has returned and has stored a colour that is
\* not black.
C7_Witness ==
  /\ pcW = "present" /\ rx = WIDTH /\ writes[0] = 1
  /\ \E o \in DOMAIN frame : frame[o] \notin {0, 255}

\* ===================================================================
\* SpecDiv: calc_mandle_divergence as a function of its inputs
\* ===================================================================
\* coordinates k/2 for |k| <= MaxCoord
Coords == {k * (ONE \div 2) : k \in (-MaxCoord)..MaxCoord}

DivInit ==
  /\ overflow_checks \in BOOLEAN
  /\ in_a \in Coords
  /\ in_b \in Coords
  /\ in_n \in 1..MaxBudget
  /\ result = NoCall
  /\ result_2n = NoCall
  /\ settings = InitSettings
  /\ LockIdle /\ InputIdle /\ GhostIdle /\ RenderIdle /\ NumIdle /\ WorkerIdle

DivCall ==
  /\ ~Called(result)
  /\ result' = calc_mandle_divergence(in_a, in_b, in_n, overflow_checks)
  /\ UNCHANGED <<overflow_checks, settings, lockVars, inputVars, ghostVars,
                 in_a, in_b, in_n, result_2n, renderVars, numVars, workerVars>>

DivCallDoubled ==
  /\ ~Called(result_2n)
  /\ result_2n' =
       calc_mandle_divergence(in_a, in_b, 2 * in_n, overflow_checks)
  /\ UNCHANGED <<overflow_checks, settings, lockVars, inputVars, ghostVars,
                 in_a, in_b, in_n, result, renderVars, numVars, workerVars>>

DivNext == DivCall \/ DivCallDoubled

SpecDiv == DivInit /\ [][DivNext]_vars

\* a point that escapes at iteration 0: |5| + |0| > 4
ESCAPES_AT_0 == from_num(5, 1)

Returned(r) == Called(r) /\ ~r.panic

\* C3: for every coordinate and every budget N >= 1 the value returned lies
\* in [0, (N-1)/N] or is the interior sentinel, and the value returned for a
\* point that never escapes within N iterations differs from the value
\* returned for a point that escapes at iteration 0.
C3_RangeAndDistinctInterior ==
  Returned(result) =>
    /\ result.val[1] >= 0
    /\ result.val[1] * in_n <= (in_n - 1) * result.val[2]
    /\ (result.esc = in_n
          => result.val # calc_mandle_divergence(ESCAPES_AT_0, 0, in_n,
                                                 overflow_checks).val)

\* C8: if the point escapes at iteration i < N with budget N, the escape
\* iteration recovered from the result with budget 2N (result * 2N) is not
\* smaller than i.
C8_MonotonicRefinement ==
  (Returned(result) /\ Returned(result_2n) /\ result.esc < in_n)
    => result_2n.val[1] * (2 * in_n) >= result.esc * result_2n.val[2]

\* C8 witness: a point that escaped at an iteration i >= 1 within N, and
\* the call with budget 2N has returned.
C8_Witness ==
  /\ Returned(result) /\ Returned(result_2n)
  /\ result.esc < in_n
  /\ result.esc >= 1

\* the reference escape-time iteration: the same recurrence with the test
\* re^2 + im^2 > 4
RECURSIVE ref_loop(_, _, _, _, _, _)
ref_loop(a, b, z0_a, z0_b, i, max_iter) ==
  IF i >= max_iter THEN max_iter
  ELSE IF mr_add(mr_mul(a, a), mr_mul(b, b)) > FOUR THEN i
  ELSE ref_loop(mr_add(mr_sub(mr_mul(a, a), mr_mul(b, b)), z0_a),
                mr_add(mr_mul(mr_mul(TWO, a), b), z0_b),
                z0_a, z0_b, i + 1, max_iter)

\* C9: the escape iteration equals that of the reference iteration with the
\* magnitude-squared test re^2 + im^2 > 4, for every coordinate and budget.
C9_MagnitudeSquaredMetric ==
  Returned(result) => result.esc = ref_loop(in_a, in_b, in_a, in_b, 0, in_n)

====
